---- MODULE Spec2Model ----
(***************************************************************************)
(* Utility-bill tracker: one SQLite table `bills` behind two Flask front   *)
(* ends, the JSON API (src/backend/app.py) and the server-rendered form    *)
(* UI (src/app.py).  The model holds the table, the AUTOINCREMENT counter, *)
(* the clock that CURRENT_TIMESTAMP reads, and the requests in flight,     *)
(* one step per SQL statement (with its commit).                           *)
(***************************************************************************)
EXTENDS Integers, Sequences, FiniteSets, TLC

(* ------------------------------ bounds -------------------------------- *)
NumProcs == 2          \* request handlers that can be in flight together
MaxId == 2             \* AUTOINCREMENT ids handed out in one behaviour
NumDates == 2          \* distinct non-empty date strings a request can carry
MaxClock == 1          \* seconds the clock can advance
NumPayloads == 1       \* non-empty request payloads per front end
MaxHistBills == 14     \* rows in the table the history page is applied to

(* -------------------------- program constants ------------------------- *)
HistoryLimit == 13     \* LIMIT 13 of the windowed history query

VARIABLES bills, seq, now, req, deletedOk, hist

vars == <<bills, seq, now, req, deletedOk, hist>>

(* ------------------------------ values -------------------------------- *)
(* A Python / JSON / SQLite value.  Strings are sequences of characters.   *)
(* "absent" is a key missing from the request; "null" is None / NULL.      *)
Absent == [t |-> "absent", n |-> 0, s |-> <<>>]
Null == [t |-> "null", n |-> 0, s |-> <<>>]
Text(str) == [t |-> "text", n |-> 0, s |-> str]
Real(num) == [t |-> "real", n |-> num, s |-> <<>>]

Digits == <<"0", "1", "2", "3", "4", "5", "6", "7", "8", "9">>

IsDigit(c) == \E i \in 1..Len(Digits) : Digits[i] = c

DigitValue(c) == (CHOOSE i \in 1..Len(Digits) : Digits[i] = c) - 1

(* The byte order SQLite's BINARY collation compares text by: digits sort  *)
(* before letters.                                                         *)
Code(c) == IF IsDigit(c) THEN 48 + DigitValue(c) ELSE 120

RECURSIVE DecimalValue(_)
DecimalValue(str) ==
    IF str = <<>> THEN 0
    ELSE 10 * DecimalValue(SubSeq(str, 1, Len(str) - 1)) + DigitValue(str[Len(str)])

(* Whether float(str) returns rather than raising ValueError. *)
ParsesAsNumber(str) == Len(str) > 0 /\ \A i \in 1..Len(str) : IsDigit(str[i])

RECURSIVE TextLess(_, _)
TextLess(a, b) ==
    IF a = <<>> THEN b # <<>>
    ELSE IF b = <<>> THEN FALSE
    ELSE IF Code(Head(a)) # Code(Head(b)) THEN Code(Head(a)) < Code(Head(b))
    ELSE TextLess(Tail(a), Tail(b))

(* Python truthiness of a request or column value. *)
Falsy(v) ==
    \/ v.t \in {"absent", "null"}
    \/ v.t = "text" /\ v.s = <<>>
    \/ v.t = "real" /\ v.n = 0

(* dict.get(key, 0): only a missing key takes the default. *)
GetDefault(v) == IF v.t = "absent" THEN Real(0) ELSE v

(* parse_float: "" and None give the default, float() of anything else,    *)
(* and the default again when float() raises.                              *)
parse_float(v) ==
    IF v.t \in {"absent", "null"} \/ (v.t = "text" /\ v.s = <<>>) THEN Real(0)
    ELSE IF v.t = "real" THEN v
    ELSE IF ParsesAsNumber(v.s) THEN Real(DecimalValue(v.s))
    ELSE Real(0)

(* What a REAL column keeps of a bound parameter: numbers and text that    *)
(* looks like a number become REAL, other text stays TEXT, NULL stays NULL.*)
RealAffinity(v) ==
    IF v.t = "text" /\ ParsesAsNumber(v.s) THEN Real(DecimalValue(v.s)) ELSE v

(* What the TEXT column `date` keeps of a bound string. *)
TextAffinity(v) == v.s

(* ------------------------------ requests ------------------------------ *)
(* The cost and usage columns, in the order of the INSERT and UPDATE.      *)
FieldNames ==
    << "gas_cost", "electricity_delivery_cost", "electricity_generation_cost",
       "other_cost", "gas_therms", "electricity_on_peak_kwh",
       "electricity_off_peak_kwh", "electricity_super_off_peak_kwh" >>

Fields == 1..Len(FieldNames)

FrontEnds == {"api", "form"}

(* The values a field of a request can carry: a JSON body holds strings,   *)
(* numbers and null; a form holds strings only.                            *)
ApiRaw == << Absent, Text(<<>>), Text(<<"x">>), Text(<<"7">>), Real(3), Null >>

FormRaw == << Absent, Text(<<>>), Text(<<"x">>), Text(<<"7">>) >>

RawOf(fe) == IF fe = "api" THEN ApiRaw ELSE FormRaw

(* Payload 0 carries no cost/usage key; payload k >= 1 gives field i the   *)
(* (i + k - 1)-th raw value, cyclically, so that every field meets every   *)
(* kind of value as k varies.                                              *)
Payload(fe, k) ==
    [i \in Fields |->
        IF k = 0 THEN Absent ELSE RawOf(fe)[((i + k - 2) % Len(RawOf(fe))) + 1]]

PayloadIds == 0..NumPayloads

(* The date strings: "" and NumDates two-digit dates "01", "02", ...       *)
DateStr(j) == << Digits[(j \div 10) + 1], Digits[(j % 10) + 1] >>

DateStrings == {<<>>} \cup {DateStr(j) : j \in 1..NumDates}

RawDates(fe) ==
    {Absent} \cup {Text(d) : d \in DateStrings} \cup (IF fe = "api" THEN {Null} ELSE {})

(* request.get_json() of the API is falsy for a body such as {}.           *)
NoData(date, k) == date.t = "absent" /\ k = 0

(* ------------------------------- store -------------------------------- *)
(* bills: the rows of the table, by id.  seq: the sqlite_sequence entry,   *)
(* the largest id that was ever inserted.                                  *)
NoBills == [i \in {} |-> 0]

Max(S) == CHOOSE m \in S : \A x \in S : x <= m

(* A table without AUTOINCREMENT: one more than the largest id present. *)
RowidWithoutAutoincrement(B, s) == IF DOMAIN B = {} THEN 1 ELSE Max(DOMAIN B) + 1

(* id INTEGER PRIMARY KEY AUTOINCREMENT: one more than the largest id that *)
(* was ever inserted.                                                      *)
NextRowId(B, s) == s + 1

(* Uniqueness looked at by INSERT alone. *)
DateTakenOnInsertOnly(B, d, self) == self = 0 /\ \E i \in DOMAIN B : B[i].date = d

(* Uniqueness looked at by UPDATE alone. *)
DateTakenOnUpdateOnly(B, d, self) ==
    self # 0 /\ \E i \in DOMAIN B : i # self /\ B[i].date = d

(* Uniqueness that counts the updated row itself. *)
DateTakenAnyRow(B, d, self) == \E i \in DOMAIN B : B[i].date = d

(* date TEXT ... UNIQUE: another row holds this date. *)
DateTaken(B, d, self) == \E i \in DOMAIN B : i # self /\ B[i].date = d

(* A column declared NOT NULL and not UNIQUE. *)
NotNullOnly(B, date, self) == date.t = "null"

(* date TEXT NOT NULL UNIQUE: the statement raises sqlite3.IntegrityError. *)
IntegrityError(B, date, self) ==
    \/ date.t = "null"
    \/ date.t = "text" /\ DateTaken(B, TextAffinity(date), self)

(* The parameters the API binds: data.get(name, 0). *)
ApiValues(data) == [i \in Fields |-> RealAffinity(GetDefault(data[i]))]

(* The parameters the forms bind: parse_float(request.form.get(name)). *)
FormValues(data) == [i \in Fields |-> RealAffinity(parse_float(data[i]))]

BoundValues(fe, k) ==
    IF fe = "api" THEN ApiValues(Payload(fe, k)) ELSE FormValues(Payload(fe, k))

(* data.get("date") of the API's update: None when the key is missing. *)
GetOrNone(v) == IF v.t = "absent" THEN Null ELSE v

InsertRow(B, s, t, date, vals) ==
    LET id == NextRowId(B, s)
        row == [id |-> id, date |-> TextAffinity(date), f |-> vals,
                created_at |-> t, updated_at |-> t]
    IN  [i \in DOMAIN B \cup {id} |-> IF i = id THEN row ELSE B[i]]

UpdateRow(B, id, t, date, vals) ==
    [B EXCEPT ![id] = [@ EXCEPT !.date = TextAffinity(date), !.f = vals,
                                !.updated_at = t]]

DeleteRow(B, id) == [i \in DOMAIN B \ {id} |-> B[i]]

(* SELECT * FROM bills WHERE id = ?, fetchone(): the row or None. *)
SelectById(B, id) == IF id \in DOMAIN B THEN <<B[id]>> ELSE <<>>

(* get_bill: the bill, or 404. *)
get_bill(B, id) ==
    IF SelectById(B, id) = <<>> THEN [resp |-> "NotFound", body |-> <<>>]
    ELSE [resp |-> "OK", body |-> SelectById(B, id)]

(* ------------------------------ history ------------------------------- *)
(* The cost/usage columns the history query selects (gas_therms is not     *)
(* among them).                                                            *)
HistoryFields == {1, 2, 3, 4, 6, 7, 8}

HistoryRow(row) == [date |-> row.date, f |-> [i \in HistoryFields |-> row.f[i]]]

(* ORDER BY date DESC under the BINARY collation. *)
RECURSIVE InsertByDateDesc(_, _)
InsertByDateDesc(row, rows) ==
    IF rows = <<>> THEN <<row>>
    ELSE IF TextLess(Head(rows).date, row.date) THEN <<row>> \o rows
    ELSE <<Head(rows)>> \o InsertByDateDesc(row, Tail(rows))

RECURSIVE OrderByDateDesc(_, _)
OrderByDateDesc(B, ids) ==
    IF ids = {} THEN <<>>
    ELSE LET i == CHOOSE x \in ids : TRUE
         IN  InsertByDateDesc(HistoryRow(B[i]), OrderByDateDesc(B, ids \ {i}))

(* LIMIT n *)
Limit(rows, n) == SubSeq(rows, 1, IF Len(rows) < n THEN Len(rows) ELSE n)

(* list.reverse() *)
Reverse(rows) == [i \in 1..Len(rows) |-> rows[Len(rows) + 1 - i]]

(* value or 0 *)
OrZero(v) == IF Falsy(v) THEN Real(0) ELSE v

(* The chart lists: dates, and bill[column] or 0 for each column. *)
HistoryResponse(rows, show_all) ==
    [applied |-> TRUE, show_all |-> show_all, bills |-> rows,
     dates |-> [i \in 1..Len(rows) |-> rows[i].date],
     charts |-> [c \in HistoryFields |->
                    [i \in 1..Len(rows) |-> OrZero(rows[i].f[c])]]]

(* history: the rows, newest first, cut to 13 unless ?all=true, reversed,  *)
(* and the chart lists built from them.                                    *)
history(B, show_all) ==
    HistoryResponse(
        Reverse(IF show_all THEN OrderByDateDesc(B, DOMAIN B)
                ELSE Limit(OrderByDateDesc(B, DOMAIN B), HistoryLimit)),
        show_all)

NoHistory ==
    [applied |-> FALSE, show_all |-> FALSE, bills |-> <<>>, dates |-> <<>>,
     charts |-> [c \in HistoryFields |-> <<>>]]

(* --------------------------- request handlers -------------------------- *)
Procs == 1..NumProcs

Idle ==
    [pc |-> "idle", op |-> "none", fe |-> "api", id |-> 0, date |-> Absent,
     k |-> 0, resp |-> "", body |-> <<>>]

Begin(op, fe, id, date, k, pc) ==
    [pc |-> pc, op |-> op, fe |-> fe, id |-> id, date |-> date, k |-> k,
     resp |-> "", body |-> <<>>]

(* The response leaves; the request stays on record until the worker      *)
(* takes the next one.                                                     *)
Respond(r, resp, body) == [r EXCEPT !.pc = "done", !.resp = resp, !.body = body]

Init ==
    /\ bills = NoBills
    /\ seq = 0
    /\ now = 0
    /\ req = [p \in Procs |-> Idle]
    /\ deletedOk = {}
    /\ hist = NoHistory

(* create_bill (API): validation, then INSERT and commit. *)
ApiCreate(p, K) ==
    /\ req[p].pc = "idle"
    /\ \E date \in RawDates("api"), k \in K :
        LET r == Begin("create", "api", 0, date, k, "insert") IN
        IF NoData(date, k) \/ date.t = "absent"
        THEN /\ req' = [req EXCEPT ![p] = Respond(r, "ValidationError", <<>>)]
             /\ UNCHANGED <<bills, seq>>
        ELSE IF IntegrityError(bills, date, 0)
        THEN /\ req' = [req EXCEPT ![p] = Respond(r, "UniqueConstraintError", <<>>)]
             /\ UNCHANGED <<bills, seq>>
        ELSE /\ seq < MaxId
             /\ bills' = InsertRow(bills, seq, now, date, BoundValues("api", k))
             /\ seq' = NextRowId(bills, seq)
             /\ req' = [req EXCEPT ![p] =
                            [r EXCEPT !.pc = "select", !.id = NextRowId(bills, seq)]]
    /\ UNCHANGED <<now, deletedOk, hist>>

(* create_bill (API): SELECT of cursor.lastrowid, 201 with the row. *)
ApiCreateSelect(p) ==
    /\ req[p].pc = "select"
    /\ req[p].op = "create"
    /\ req' = [req EXCEPT ![p] = Respond(@, "Created", SelectById(bills, @.id))]
    /\ UNCHANGED <<bills, seq, now, deletedOk, hist>>

(* create_bill_form: validation, INSERT and commit, redirect. *)
FormCreate(p, K) ==
    /\ req[p].pc = "idle"
    /\ \E date \in RawDates("form"), k \in K :
        LET r == Begin("create", "form", 0, date, k, "insert") IN
        IF Falsy(date)
        THEN /\ req' = [req EXCEPT ![p] = Respond(r, "ValidationError", <<>>)]
             /\ UNCHANGED <<bills, seq>>
        ELSE IF IntegrityError(bills, date, 0)
        THEN /\ req' = [req EXCEPT ![p] = Respond(r, "UniqueConstraintError", <<>>)]
             /\ UNCHANGED <<bills, seq>>
        ELSE /\ seq < MaxId
             /\ bills' = InsertRow(bills, seq, now, date, BoundValues("form", k))
             /\ seq' = NextRowId(bills, seq)
             /\ req' = [req EXCEPT ![p] =
                            Respond([r EXCEPT !.id = NextRowId(bills, seq)], "OK", <<>>)]
    /\ UNCHANGED <<now, deletedOk, hist>>

(* update_bill (API): the body check and the existence SELECT. *)
ApiUpdateCheck(p, K) ==
    /\ req[p].pc = "idle"
    /\ \E id \in 1..MaxId, date \in RawDates("api"), k \in K :
        LET r == Begin("update", "api", id, date, k, "update") IN
        IF NoData(date, k)
        THEN req' = [req EXCEPT ![p] = Respond(r, "ValidationError", <<>>)]
        ELSE IF SelectById(bills, id) = <<>>
        THEN req' = [req EXCEPT ![p] = Respond(r, "NotFound", <<>>)]
        ELSE req' = [req EXCEPT ![p] = r]
    /\ UNCHANGED <<bills, seq, now, deletedOk, hist>>

(* update_bill (API): the UPDATE and its commit.  An UPDATE whose WHERE    *)
(* matches no row changes nothing and raises nothing.                      *)
ApiUpdateExec(p) ==
    /\ req[p].pc = "update"
    /\ req[p].fe = "api"
    /\ LET r == req[p]
           date == GetOrNone(r.date)
       IN  IF r.id \notin DOMAIN bills
           THEN /\ bills' = bills
                /\ req' = [req EXCEPT ![p].pc = "select"]
           ELSE IF IntegrityError(bills, date, r.id)
           THEN /\ bills' = bills
                /\ req' = [req EXCEPT ![p] = Respond(r, "UniqueConstraintError", <<>>)]
           ELSE /\ bills' = UpdateRow(bills, r.id, now, date, BoundValues("api", r.k))
                /\ req' = [req EXCEPT ![p].pc = "select"]
    /\ UNCHANGED <<seq, now, deletedOk, hist>>

(* update_bill (API): SELECT of the row, 200 with row_to_dict of it. *)
ApiUpdateSelect(p) ==
    /\ req[p].pc = "select"
    /\ req[p].op = "update"
    /\ req' = [req EXCEPT ![p] = Respond(@, "OK", SelectById(bills, @.id))]
    /\ UNCHANGED <<bills, seq, now, deletedOk, hist>>

(* update_bill_form: the date check (which re-renders the form) and the    *)
(* existence SELECT.                                                       *)
FormUpdateCheck(p, K) ==
    /\ req[p].pc = "idle"
    /\ \E id \in 1..MaxId, date \in RawDates("form"), k \in K :
        LET r == Begin("update", "form", id, date, k, "update") IN
        IF Falsy(date)
        THEN req' = [req EXCEPT ![p] = Respond(r, "ValidationError", <<>>)]
        ELSE IF SelectById(bills, id) = <<>>
        THEN req' = [req EXCEPT ![p] = Respond(r, "NotFound", <<>>)]
        ELSE req' = [req EXCEPT ![p] = r]
    /\ UNCHANGED <<bills, seq, now, deletedOk, hist>>

(* update_bill_form: the UPDATE and its commit, redirect; on               *)
(* IntegrityError the form is rendered again with the error.               *)
FormUpdateExec(p) ==
    /\ req[p].pc = "update"
    /\ req[p].fe = "form"
    /\ LET r == req[p] IN
           IF r.id \notin DOMAIN bills
           THEN /\ bills' = bills
                /\ req' = [req EXCEPT ![p] = Respond(r, "OK", <<>>)]
           ELSE IF IntegrityError(bills, r.date, r.id)
           THEN /\ bills' = bills
                /\ req' = [req EXCEPT ![p] = Respond(r, "UniqueConstraintError", <<>>)]
           ELSE /\ bills' = UpdateRow(bills, r.id, now, r.date, BoundValues("form", r.k))
                /\ req' = [req EXCEPT ![p] = Respond(r, "OK", <<>>)]
    /\ UNCHANGED <<seq, now, deletedOk, hist>>

(* delete_bill (both front ends): the existence SELECT. *)
DeleteCheck(p) ==
    /\ req[p].pc = "idle"
    /\ \E id \in 1..MaxId, fe \in FrontEnds :
        LET r == Begin("delete", fe, id, Absent, 0, "delete") IN
        IF SelectById(bills, id) = <<>>
        THEN req' = [req EXCEPT ![p] = Respond(r, "NotFound", <<>>)]
        ELSE req' = [req EXCEPT ![p] = r]
    /\ UNCHANGED <<bills, seq, now, deletedOk, hist>>

(* delete_bill: the DELETE and its commit, 200.  deletedOk records the ids *)
(* whose delete has answered with success.                                 *)
DeleteExec(p) ==
    /\ req[p].pc = "delete"
    /\ bills' = DeleteRow(bills, req[p].id)
    /\ req' = [req EXCEPT ![p] = Respond(@, "OK", <<>>)]
    /\ deletedOk' = deletedOk \cup {req[p].id}
    /\ UNCHANGED <<seq, now, hist>>

(* The response has been sent; the worker takes the next request. *)
Finish(p) ==
    /\ req[p].pc = "done"
    /\ req' = [req EXCEPT ![p] = Idle]
    /\ UNCHANGED <<bills, seq, now, deletedOk, hist>>

(* CURRENT_TIMESTAMP has a resolution of one second: the clock moves on    *)
(* between some statements and not between others.                         *)
Tick ==
    /\ now < MaxClock
    /\ now' = now + 1
    /\ UNCHANGED <<bills, seq, req, deletedOk, hist>>

(* Several workers serve requests at once (gunicorn workers, or threads of  *)
(* the Flask server), each on its own connection.  The clients of this     *)
(* specification send bodies without cost/usage keys.                      *)
Next ==
    \/ \E p \in Procs : ApiCreate(p, {0})
    \/ \E p \in Procs : ApiCreateSelect(p)
    \/ \E p \in Procs : FormCreate(p, {0})
    \/ \E p \in Procs : ApiUpdateCheck(p, {0})
    \/ \E p \in Procs : ApiUpdateExec(p)
    \/ \E p \in Procs : ApiUpdateSelect(p)
    \/ \E p \in Procs : FormUpdateCheck(p, {0})
    \/ \E p \in Procs : FormUpdateExec(p)
    \/ \E p \in Procs : DeleteCheck(p)
    \/ \E p \in Procs : DeleteExec(p)
    \/ \E p \in Procs : Finish(p)
    \/ Tick

Spec == Init /\ [][Next]_vars

(* One worker serves the requests one after the other; the clients send    *)
(* every payload.                                                          *)
NextSerial ==
    \/ ApiCreate(1, PayloadIds)
    \/ ApiCreateSelect(1)
    \/ FormCreate(1, PayloadIds)
    \/ ApiUpdateCheck(1, PayloadIds)
    \/ ApiUpdateExec(1)
    \/ ApiUpdateSelect(1)
    \/ FormUpdateCheck(1, PayloadIds)
    \/ FormUpdateExec(1)
    \/ DeleteCheck(1)
    \/ DeleteExec(1)
    \/ Finish(1)
    \/ Tick

SpecSerial == Init /\ [][NextSerial]_vars

(* Create requests alone, one per worker, racing from the empty table;     *)
(* the clients send the date only.                                         *)
NextRace ==
    \/ \E p \in Procs : ApiCreate(p, {0})
    \/ \E p \in Procs : ApiCreateSelect(p)
    \/ \E p \in Procs : FormCreate(p, {0})
    \/ Tick

SpecRace == Init /\ [][NextRace]_vars

(* The history page applied to a table of up to MaxHistBills rows, which   *)
(* one front end has filled: the row of date j carries payload j, and the  *)
(* ids follow the dates or run against them.                               *)
HistoryTable(D, fe, ascending) ==
    LET idOf(j) == IF ascending THEN Cardinality({x \in D : x <= j})
                   ELSE Cardinality({x \in D : x >= j})
        dateOf(i) == CHOOSE j \in D : idOf(j) = i
    IN  [i \in 1..Cardinality(D) |->
            [id |-> i, date |-> DateStr(dateOf(i)),
             f |-> BoundValues(fe, dateOf(i)), created_at |-> 0, updated_at |-> 0]]

(* The sets of dates in the table: the first n dates, and all dates but   *)
(* one or two.                                                             *)
HistoryDateSets ==
    {1..n : n \in 0..MaxHistBills}
    \cup {(1..MaxHistBills) \ G :
            G \in {H \in SUBSET (1..MaxHistBills) : Cardinality(H) <= 2}}

InitHistory ==
    /\ \E D \in HistoryDateSets, fe \in FrontEnds, ascending \in BOOLEAN :
        /\ bills = HistoryTable(D, fe, ascending)
        /\ seq = Cardinality(D)
    /\ now = 0
    /\ req = [p \in Procs |-> Idle]
    /\ deletedOk = {}
    /\ hist = NoHistory

HistoryPage ==
    /\ \E show_all \in BOOLEAN : hist' = history(bills, show_all)
    /\ UNCHANGED <<bills, seq, now, req, deletedOk>>

NextHistory == HistoryPage

SpecHistory == InitHistory /\ [][NextHistory]_vars

(* ------------------------------- claims ------------------------------- *)
Done(p) == req[p].pc = "done"

ValidDate(date) == date.t = "text" /\ date.s # <<>>

RowsDated(B, d) == {i \in DOMAIN B : B[i].date = d}

(* C1: in every reachable state, under every interleaving of create,      *)
(* update and delete requests of both front ends, no two stored bills     *)
(* have the same date.                                                     *)
C1_DatesUnique ==
    \A i \in DOMAIN bills : \A j \in DOMAIN bills :
        i # j => bills[i].date # bills[j].date

(* Two bills are stored and a request for a date that was taken has been   *)
(* refused.                                                                *)
C1_Witness ==
    /\ Cardinality(DOMAIN bills) >= 2
    /\ \E p \in Procs :
        /\ Done(p)
        /\ req[p].op \in {"create", "update"}
        /\ ValidDate(req[p].date)
        /\ req[p].resp = "UniqueConstraintError"

(* C2: a create whose (non-empty) date is the date of a stored bill        *)
(* answers UniqueConstraintError and leaves the table, and the id counter, *)
(* exactly as they were.                                                   *)
C2_CreateConflictRefused ==
    [][\A p \in Procs :
        ( /\ req[p].pc = "idle"
          /\ req'[p].op = "create"
          /\ ValidDate(req'[p].date)
          /\ RowsDated(bills, req'[p].date.s) # {} )
        => ( /\ req'[p].pc = "done"
             /\ req'[p].resp = "UniqueConstraintError"
             /\ bills' = bills
             /\ seq' = seq )]_vars

(* A create has been refused for its date while the table holds rows with  *)
(* cost/usage values of every kind.                                        *)
C2_Witness ==
    \E p \in Procs :
        /\ Done(p)
        /\ req[p].op = "create"
        /\ ValidDate(req[p].date)
        /\ req[p].resp = "UniqueConstraintError"
        /\ RowsDated(bills, req[p].date.s) # {}
        /\ \E i \in DOMAIN bills : bills[i].f # BoundValues("api", 0)

(* The claims' coercion policy for a cost/usage value of a request: a     *)
(* value that is missing, empty or no number counts as 0, a number as      *)
(* itself.                                                                 *)
PolicyValue(v) ==
    IF v.t = "real" THEN v
    ELSE IF v.t = "text" /\ ParsesAsNumber(v.s) THEN Real(DecimalValue(v.s))
    ELSE Real(0)

PolicyValues(fe, k) == [c \in Fields |-> PolicyValue(Payload(fe, k)[c])]

(* The step in which worker p runs the UPDATE statement of an update of a  *)
(* bill that is stored.                                                    *)
UpdateApplied(p) ==
    /\ req[p].pc = "update"
    /\ req'[p].pc # "update"
    /\ req[p].id \in DOMAIN bills

(* C3: a create or update whose date is absent or empty, through either    *)
(* front end, answers ValidationError and leaves the table untouched; it   *)
(* never answers UniqueConstraintError.                                    *)
C3_EmptyDateIsValidationError ==
    [][\A p \in Procs :
        ( /\ req'[p] # req[p]
          /\ req'[p].op \in {"create", "update"}
          /\ req'[p].date \in {Absent, Text(<<>>)} )
        => ( /\ req'[p].pc = "done"
             /\ req'[p].resp = "ValidationError"
             /\ bills' = bills )]_vars

(* C4: an update of a stored bill A to the (non-empty) date of another     *)
(* stored bill answers UniqueConstraintError and leaves every row,         *)
(* A's included, as it was; an update that keeps A's own date is no        *)
(* conflict: it writes the row and answers with success.                   *)
C4_UpdateConflictRefused ==
    [][\A p \in Procs :
        /\ ( /\ UpdateApplied(p)
             /\ ValidDate(req[p].date)
             /\ RowsDated(bills, req[p].date.s) \ {req[p].id} # {} )
           => ( /\ req'[p].pc = "done"
                /\ req'[p].resp = "UniqueConstraintError"
                /\ bills' = bills )
        /\ ( /\ UpdateApplied(p)
             /\ ValidDate(req[p].date)
             /\ bills[req[p].id].date = req[p].date.s )
           => ( /\ req'[p].resp # "UniqueConstraintError"
                /\ (req'[p].resp = "OK" \/ req'[p].pc = "select")
                /\ bills'[req[p].id].date = req[p].date.s
                /\ bills'[req[p].id].f = BoundValues(req[p].fe, req[p].k) )
        /\ ( /\ req[p].pc = "select"
             /\ req[p].op = "update"
             /\ req'[p] # req[p] )
           => req'[p].resp = "OK"]_vars

(* A form update of a stored bill has been refused for its date, with two  *)
(* bills stored whose cost/usage values differ.                            *)
C4_Witness ==
    \E p \in Procs :
        /\ Done(p)
        /\ req[p].op = "update"
        /\ req[p].fe = "form"
        /\ req[p].resp = "UniqueConstraintError"
        /\ req[p].id \in DOMAIN bills
        /\ RowsDated(bills, req[p].date.s) \ {req[p].id} # {}
        /\ \E i \in DOMAIN bills : bills[i].f # bills[req[p].id].f

(* C5: every create and update stores each cost/usage field as the         *)
(* policy's number (0 for a missing, empty or unparsable value, the number *)
(* otherwise), so every stored cost/usage value is a number.               *)
C5_FieldsCoerced ==
    [][/\ \A p \in Procs :
            ( /\ req'[p] # req[p]
              /\ req'[p].op \in {"create", "update"}
              /\ bills' # bills )
            => ( /\ req'[p].id \in DOMAIN bills'
                 /\ bills'[req'[p].id].f = PolicyValues(req'[p].fe, req'[p].k) )
       /\ \A i \in DOMAIN bills' : \A c \in Fields : bills'[i].f[c].t = "real"]_vars

(* C6: of the create requests racing for one date, exactly one answers     *)
(* with success and every other one with UniqueConstraintError, and one    *)
(* bill with that date is stored.                                          *)
CreatesFor(d) == {p \in Procs : req[p].op = "create" /\ req[p].date = Text(d)}

Succeeded(p) == Done(p) /\ req[p].resp \in {"OK", "Created"}

C6_OneCreateWins ==
    \A d \in DateStrings \ {<<>>} :
        /\ Cardinality({p \in CreatesFor(d) : Succeeded(p)}) <= 1
        /\ ( CreatesFor(d) # {} /\ \A p \in CreatesFor(d) : Done(p) )
           => /\ Cardinality({p \in CreatesFor(d) : Succeeded(p)}) = 1
              /\ \A p \in CreatesFor(d) :
                    ~Succeeded(p) => req[p].resp = "UniqueConstraintError"
              /\ Cardinality(RowsDated(bills, d)) = 1

(* Two creates for one date have both answered, one through each front     *)
(* end.                                                                    *)
C6_Witness ==
    \E p \in Procs : \E q \in Procs \ {p} :
        /\ Done(p) /\ Done(q)
        /\ req[p].op = "create" /\ req[q].op = "create"
        /\ req[p].fe # req[q].fe
        /\ ValidDate(req[p].date)
        /\ req[p].date = req[q].date

(* C7: a successful update writes the request's date and its coerced       *)
(* cost/usage values into the bill, keeps the bill's id and created_at,    *)
(* gives updated_at a value other than the one it had, and leaves every    *)
(* other bill as it was.                                                   *)
C7_UpdateFrame ==
    [][\A p \in Procs :
        ( UpdateApplied(p) /\ req'[p].resp # "UniqueConstraintError" )
        => LET a == req[p].id IN
           /\ DOMAIN bills' = DOMAIN bills
           /\ bills'[a].date = req[p].date.s
           /\ bills'[a].f = PolicyValues(req[p].fe, req[p].k)
           /\ bills'[a].id = bills[a].id
           /\ bills'[a].created_at = bills[a].created_at
           /\ bills'[a].updated_at # bills[a].updated_at
           /\ \A i \in DOMAIN bills \ {a} : bills'[i] = bills[i]]_vars

(* C8: a bill whose delete has answered with success stays gone: get and   *)
(* the existence check of a later delete find nothing under its id, and    *)
(* the id the next create would be given is not the id of a deleted bill.  *)
C8_DeletedStaysGone ==
    \A i \in deletedOk :
        /\ i \notin DOMAIN bills
        /\ get_bill(bills, i).resp = "NotFound"
        /\ SelectById(bills, i) = <<>>
        /\ NextRowId(bills, seq) # i

(* After the delete of a bill a bill with a larger id is stored, and a     *)
(* second delete of the deleted bill has answered NotFound.                *)
C8_Witness ==
    \E i \in deletedOk :
        /\ \E j \in DOMAIN bills : j > i
        /\ \E p \in Procs :
            /\ Done(p)
            /\ req[p].op = "delete"
            /\ req[p].id = i
            /\ req[p].resp = "NotFound"

(* C9: the history page shows the min(13, N) bills of greatest date (all  *)
(* N with ?all=true) in ascending order of date, and every chart list is   *)
(* as long as the bill list and holds at position i the value of bill i.   *)
C9_HistoryWindowAndCharts ==
    hist.applied =>
        LET N == Cardinality(DOMAIN bills)
            n == IF hist.show_all \/ N < HistoryLimit THEN N ELSE HistoryLimit
            shown == {hist.bills[i].date : i \in 1..Len(hist.bills)}
        IN  /\ Len(hist.bills) = n
            /\ \A i \in 1..Len(hist.bills) : \A j \in 1..Len(hist.bills) :
                    i < j => TextLess(hist.bills[i].date, hist.bills[j].date)
            /\ \A i \in DOMAIN bills :
                    bills[i].date \notin shown
                    => \A d \in shown : TextLess(bills[i].date, d)
            /\ \A i \in 1..Len(hist.bills) :
                    \E b \in DOMAIN bills : hist.bills[i] = HistoryRow(bills[b])
            /\ Len(hist.dates) = n
            /\ \A i \in 1..Len(hist.dates) : hist.dates[i] = hist.bills[i].date
            /\ \A c \in HistoryFields :
                /\ Len(hist.charts[c]) = n
                /\ \A i \in 1..Len(hist.charts[c]) :
                        hist.charts[c][i] = hist.bills[i].f[c]

(* The part of C9 that the code meets on every table: the window, the      *)
(* order and the lengths, with each chart value being `value or 0`.        *)
C9_WindowAndOrder ==
    hist.applied =>
        LET N == Cardinality(DOMAIN bills)
            n == IF hist.show_all \/ N < HistoryLimit THEN N ELSE HistoryLimit
            shown == {hist.bills[i].date : i \in 1..Len(hist.bills)}
        IN  /\ Len(hist.bills) = n
            /\ \A i \in 1..Len(hist.bills) : \A j \in 1..Len(hist.bills) :
                    i < j => TextLess(hist.bills[i].date, hist.bills[j].date)
            /\ \A i \in DOMAIN bills :
                    bills[i].date \notin shown
                    => \A d \in shown : TextLess(bills[i].date, d)
            /\ \A i \in 1..Len(hist.bills) :
                    \E b \in DOMAIN bills : hist.bills[i] = HistoryRow(bills[b])
            /\ Len(hist.dates) = n
            /\ \A c \in HistoryFields :
                /\ Len(hist.charts[c]) = n
                /\ \A i \in 1..Len(hist.charts[c]) :
                        hist.charts[c][i] = OrZero(hist.bills[i].f[c])

(* C10: every answer to an update is NotFound, ValidationError,            *)
(* UniqueConstraintError, or a success for a bill that is in the table     *)
(* (and, from the API, carried in the body); an UPDATE statement that      *)
(* finds no bill under the id ends in NotFound.                            *)
C10_UpdateAnswers ==
    [][\A p \in Procs :
        /\ ( req'[p].op = "update" /\ req'[p].pc = "done" /\ req[p].pc # "done" )
           => \/ req'[p].resp \in {"NotFound", "ValidationError", "UniqueConstraintError"}
              \/ /\ req'[p].resp = "OK"
                 /\ req'[p].id \in DOMAIN bills'
                 /\ req'[p].fe = "api" => req'[p].body = <<bills'[req'[p].id]>>
        /\ ( /\ req[p].pc = "update"
             /\ req'[p].pc # "update"
             /\ req[p].id \notin DOMAIN bills )
           => ( req'[p].pc = "done" /\ req'[p].resp = "NotFound" )]_vars

====
